---- MODULE Spec2Model ----
(***************************************************************************)
(* A model of scripts/lightweight_curator.py: one run of main(), from the  *)
(* logging set-up to the deletion of the actionable indices.               *)
(*                                                                         *)
(* Strings that the code takes apart (INDEX_NAME_PREFIXES, index names)    *)
(* are sequences of one-character strings; the Elasticsearch cluster is    *)
(* the sequence of its indices in the order the backend lists them. The    *)
(* global index_name_prefixes holds a str up to line 202 and a list after  *)
(* it: its value carries its type, [str |-> ...] or [list |-> ...].        *)
(***************************************************************************)
EXTENDS Integers, Sequences, FiniteSets, Bags, TLC

VARIABLES
    pc,                   \* position of main()
    dry,                  \* parser.dry (line 31): TRUE with --dry_run
    index_name_prefixes,  \* the global of line 10: a str, a list after line 202
    elasticsearch_host,   \* the global of line 8
    percentage_threshold, \* the global of line 9
    cluster,              \* the backend: its indices, in listing order
    counter,              \* es_connect: failed attempts so far
    attempts,             \* history: connection attempts made
    sleeps,               \* history: time.sleep(10) calls made
    last_probe,           \* history: outcome of the latest attempt
    es,                   \* the handle es_connect returned ("none" before)
    max_allowed_size,     \* the budget get_max_allowed_size returned
    prefix_i,             \* get_actionable_indices: position in the prefixes
    names,                \* keys of the get_alias answer being iterated
    indices,              \* the list of index_struct collected
    sorted_indices,       \* the result of sorted(...) of line 159
    pos,                  \* position of the loop of line 159
    indices_to_delete,    \* the plan (lines 157-162), then main's local
    indices_size_counter, \* usedBytes (line 158)
    kept,                 \* history: names logged "Do not add into actionable list"
    delete_calls,         \* history: es.indices.delete calls, in order
    delete_errors,        \* history: names whose failure was logged (line 177)
    printed,              \* history: the objects print() of line 216 wrote
    nodes,                \* the disk.total lines cat.allocation answered
    exit_status,          \* process exit status (-1 while running)
    error                 \* what ended the run

vars == << pc, dry, index_name_prefixes, elasticsearch_host, percentage_threshold,
           cluster, counter, attempts, sleeps, last_probe, es, max_allowed_size,
           prefix_i, names, indices, sorted_indices, pos, indices_to_delete,
           indices_size_counter, kept, delete_calls, delete_errors, printed,
           nodes, exit_status, error >>

----------------------------------------------------------------------------
(* Bounds of the model. *)

\* longest input of the selection (SpecSelect)
MaxLen == 3
\* most indices of the cluster in a whole run (Spec)
MaxIndices == 2
\* most nodes cat.allocation lists (SpecBudget)
MaxNodes == 2

----------------------------------------------------------------------------
(* Sequences. *)

Range(s) == {s[i] : i \in 1..Len(s)}

SeqsUpTo(S, n) == UNION {[1..k -> S] : k \in 0..n}

Reverse(s) == [i \in 1..Len(s) |-> s[Len(s) + 1 - i]]

IsPrefix(p, s) == Len(p) <= Len(s) /\ SubSeq(s, 1, Len(p)) = p

\* the bag of the elements of a sequence
BagOf(s) == [x \in Range(s) |-> Cardinality({i \in 1..Len(s) : s[i] = x})]

Digits == <<"0", "1", "2", "3", "4", "5", "6", "7", "8", "9">>

----------------------------------------------------------------------------
(* index_struct (lines 137-141). *)

index_struct(name, size, creation_date) ==
    [name |-> name, size |-> size, creation_date |-> creation_date]

(* A variant of InsertDesc that is not stable: an element goes before the   *)
(* elements of equal key.                                                   *)
RECURSIVE InsertDescUnstable(_, _)
InsertDescUnstable(s, x) ==
    IF s = <<>> THEN <<x>>
    ELSE IF Head(s).creation_date > x.creation_date
         THEN <<Head(s)>> \o InsertDescUnstable(Tail(s), x)
         ELSE <<x>> \o s

(* A variant of InsertDesc without reverse=True: the oldest come first. *)
RECURSIVE InsertWithoutReverse(_, _)
InsertWithoutReverse(s, x) ==
    IF s = <<>> THEN <<x>>
    ELSE IF Head(s).creation_date <= x.creation_date
         THEN <<Head(s)>> \o InsertWithoutReverse(Tail(s), x)
         ELSE <<x>> \o s

(* sorted(indices, key=lambda x: x.creation_date, reverse=True), line 159:   *)
(* Python's sort is stable, and reverse=True keeps the original order of the *)
(* elements with equal keys. Insertion sort, each element placed behind the  *)
(* elements whose key is not smaller.                                        *)
RECURSIVE InsertDesc(_, _)
InsertDesc(s, x) ==
    IF s = <<>> THEN <<x>>
    ELSE IF Head(s).creation_date >= x.creation_date
         THEN <<Head(s)>> \o InsertDesc(Tail(s), x)
         ELSE <<x>> \o s

RECURSIVE sorted_reverse(_)
sorted_reverse(s) ==
    IF s = <<>> THEN <<>>
    ELSE InsertDesc(sorted_reverse(SubSeq(s, 1, Len(s) - 1)), s[Len(s)])

(* Variants of indices_smaller_then_max_allowed_size with a slip in them. *)

\* both comparisons of line 124 as <=
indices_smaller_or_equal(index, limit, size_counter, to_delete) ==
    LET expected_size == index.size + size_counter
    IN IF size_counter <= limit /\ expected_size <= limit
       THEN [indices_to_delete |-> to_delete,
             indices_size_counter |-> size_counter + index.size,
             log |-> "Do not add into actionable list"]
       ELSE [indices_to_delete |-> Append(to_delete, index.name),
             indices_size_counter |-> size_counter,
             log |-> "Add into actionable list"]

\* line 129 outside the else: the name is appended in both branches
indices_always_appended(index, limit, size_counter, to_delete) ==
    LET expected_size == index.size + size_counter
    IN IF size_counter < limit /\ expected_size < limit
       THEN [indices_to_delete |-> Append(to_delete, index.name),
             indices_size_counter |-> size_counter + index.size,
             log |-> "Do not add into actionable list"]
       ELSE [indices_to_delete |-> Append(to_delete, index.name),
             indices_size_counter |-> size_counter,
             log |-> "Add into actionable list"]

\* line 124 without its second comparison
indices_counter_only(index, limit, size_counter, to_delete) ==
    IF size_counter < limit
    THEN [indices_to_delete |-> to_delete,
          indices_size_counter |-> size_counter + index.size,
          log |-> "Do not add into actionable list"]
    ELSE [indices_to_delete |-> Append(to_delete, index.name),
          indices_size_counter |-> size_counter,
          log |-> "Add into actionable list"]

\* the comparisons of line 124 the other way round
indices_bigger_then_max_allowed_size(index, limit, size_counter, to_delete) ==
    LET expected_size == index.size + size_counter
    IN IF size_counter > limit /\ expected_size > limit
       THEN [indices_to_delete |-> to_delete,
             indices_size_counter |-> size_counter + index.size,
             log |-> "Do not add into actionable list"]
       ELSE [indices_to_delete |-> Append(to_delete, index.name),
             indices_size_counter |-> size_counter,
             log |-> "Add into actionable list"]

\* line 129 as an insert at the front of the list
indices_prepended(index, limit, size_counter, to_delete) ==
    LET expected_size == index.size + size_counter
    IN IF size_counter < limit /\ expected_size < limit
       THEN [indices_to_delete |-> to_delete,
             indices_size_counter |-> size_counter + index.size,
             log |-> "Do not add into actionable list"]
       ELSE [indices_to_delete |-> <<index.name>> \o to_delete,
             indices_size_counter |-> size_counter,
             log |-> "Add into actionable list"]

\* the else branch takes the size of the index to delete off the counter
indices_size_freed_on_delete(index, limit, size_counter, to_delete) ==
    LET expected_size == index.size + size_counter
    IN IF size_counter < limit /\ expected_size < limit
       THEN [indices_to_delete |-> to_delete,
             indices_size_counter |-> size_counter + index.size,
             log |-> "Do not add into actionable list"]
       ELSE [indices_to_delete |-> Append(to_delete, index.name),
             indices_size_counter |-> size_counter - index.size,
             log |-> "Add into actionable list"]

(* indices_smaller_then_max_allowed_size (lines 118-131): the two values it  *)
(* returns, and the warning it logs.                                         *)
indices_smaller_then_max_allowed_size(index, limit, size_counter, to_delete) ==
    LET expected_size == index.size + size_counter
    IN IF size_counter < limit /\ expected_size < limit
       THEN [indices_to_delete |-> to_delete,
             indices_size_counter |-> size_counter + index.size,
             log |-> "Do not add into actionable list"]
       ELSE [indices_to_delete |-> Append(to_delete, index.name),
             indices_size_counter |-> size_counter,
             log |-> "Add into actionable list"]

(* The loop of lines 157-162 over an ordered list: the plan it returns. *)
RECURSIVE select_loop(_, _, _, _)
select_loop(list, budget, size_counter, to_delete) ==
    IF list = <<>> THEN to_delete
    ELSE LET r == indices_smaller_then_max_allowed_size(
                      Head(list), budget, size_counter, to_delete)
         IN select_loop(Tail(list), budget, r.indices_size_counter, r.indices_to_delete)

----------------------------------------------------------------------------
(* Python's unbounded int, where its size matters (the disk capacities and *)
(* the budget): as in CPython, a numeral of 15-bit digits, here the least  *)
(* significant digit first and without leading zeros; 0 is the empty one.  *)

PyLong_SHIFT == 15

PyLong_BASE == 2^PyLong_SHIFT

RECURSIVE Nat2Long(_)
Nat2Long(n) == IF n = 0 THEN <<>> ELSE <<n % PyLong_BASE>> \o Nat2Long(n \div PyLong_BASE)

RECURSIVE Long2Nat(_)
Long2Nat(a) == IF a = <<>> THEN 0 ELSE Head(a) + PyLong_BASE * Long2Nat(Tail(a))

\* without the leading zero digits
Normalize(a) ==
    LET used == {i \in 1..Len(a) : a[i] # 0}
    IN IF used = {} THEN <<>>
       ELSE SubSeq(a, 1, CHOOSE i \in used : \A j \in used : j <= i)

RECURSIVE AddCarry(_, _, _)
AddCarry(a, b, c) ==
    IF a = <<>> /\ b = <<>> THEN (IF c = 0 THEN <<>> ELSE <<c>>)
    ELSE LET x == IF a = <<>> THEN 0 ELSE Head(a)
             y == IF b = <<>> THEN 0 ELSE Head(b)
             s == x + y + c
         IN <<s % PyLong_BASE>> \o AddCarry(IF a = <<>> THEN <<>> ELSE Tail(a),
                                            IF b = <<>> THEN <<>> ELSE Tail(b),
                                            s \div PyLong_BASE)

Add(a, b) == AddCarry(a, b, 0)

\* a * k + c for small k and c
RECURSIVE MulSmall(_, _, _)
MulSmall(a, k, c) ==
    IF k = 0 \/ a = <<>> THEN Nat2Long(c)
    ELSE LET s == Head(a) * k + c
         IN <<s % PyLong_BASE>> \o MulSmall(Tail(a), k, s \div PyLong_BASE)

\* quotient and remainder of a by a small d > 0
RECURSIVE DivMod(_, _)
DivMod(a, d) ==
    IF a = <<>> THEN [q |-> <<>>, r |-> 0]
    ELSE LET hi == DivMod(Tail(a), d)
             t == hi.r * PyLong_BASE + Head(a)
         IN [q |-> IF hi.q = <<>> /\ t < d THEN <<>> ELSE <<t \div d>> \o hi.q,
             r |-> t % d]

\* the number of bits of a
BitLength(a) ==
    IF a = <<>> THEN 0
    ELSE PyLong_SHIFT * (Len(a) - 1) + (CHOOSE k \in 1..PyLong_SHIFT : 2^(k - 1) <= a[Len(a)] /\ a[Len(a)] < 2^k)

\* the digit i of a, 0 beyond its ends
Digit(a, i) == IF i >= 1 /\ i <= Len(a) THEN a[i] ELSE 0

\* bit i of a, the least significant being bit 1
Bit(a, i) == (Digit(a, (i - 1) \div PyLong_SHIFT + 1) \div 2^((i - 1) % PyLong_SHIFT)) % 2

\* a * 2^k
ShiftLeft(a, k) ==
    LET q == k \div PyLong_SHIFT
        r == k % PyLong_SHIFT
    IN Normalize([j \in 1..(Len(a) + q + 1) |->
                     (Digit(a, j - q) % 2^(PyLong_SHIFT - r)) * 2^r + Digit(a, j - q - 1) \div 2^(PyLong_SHIFT - r)])

\* a \div 2^k
ShiftRight(a, k) ==
    LET q == k \div PyLong_SHIFT
        r == k % PyLong_SHIFT
    IN IF q >= Len(a) THEN <<>>
       ELSE Normalize([j \in 1..(Len(a) - q) |->
                          Digit(a, j + q) \div 2^r + (Digit(a, j + q + 1) % 2^r) * 2^(PyLong_SHIFT - r)])

\* a % 2^k # 0
LowBitsSet(a, k) == \E i \in 1..k : Bit(a, i) = 1

Less(a, b) ==
    IF Len(a) # Len(b) THEN Len(a) < Len(b)
    ELSE LET differ == {i \in 1..Len(a) : a[i] # b[i]}
         IN differ # {} /\ LET i == CHOOSE j \in differ : \A k \in differ : k <= j
                           IN a[i] < b[i]

LessEq(a, b) == ~Less(b, a)

\* the value of the decimal digits of `text`, the most significant first
RECURSIVE int_digits(_)
int_digits(text) ==
    IF text = <<>> THEN <<>>
    ELSE MulSmall(int_digits(SubSeq(text, 1, Len(text) - 1)), 10, text[Len(text)])

\* int(text) raises ValueError: the line holds no digit (it is empty or blank)
int_raises(text) == text = <<>>

(* int(node), line 106: a line of decimal digits read as an int; on a line   *)
(* without a digit it raises ValueError.                                     *)
int_str(text) == IF int_raises(text) THEN "ValueError" ELSE int_digits(text)

----------------------------------------------------------------------------
(* Python's float, an IEEE 754 double: m * 2^e with m of at most           *)
(* DBL_MANT_DIG bits. The values met here are far from the exponent range. *)

DBL_MANT_DIG == 53

(* (q + f) * 2^e rounded to the nearest double, ties to even; f is a        *)
(* fraction in [0,1), not 0 exactly when sticky, and q has more than        *)
(* DBL_MANT_DIG bits when sticky.                                           *)
RoundToDouble(q, sticky, e) ==
    IF BitLength(q) <= DBL_MANT_DIG THEN [m |-> q, e |-> e]
    ELSE LET drop == BitLength(q) - DBL_MANT_DIG
             top == ShiftRight(q, drop)
             rest == sticky \/ LowBitsSet(q, drop - 1)
             up == Bit(q, drop) = 1 /\ (rest \/ Bit(top, 1) = 1)
         IN [m |-> IF up THEN AddCarry(top, <<>>, 1) ELSE top, e |-> e + drop]

\* the conversion of an int operand of / to float
PyLong_AsDouble(n) == RoundToDouble(n, FALSE, 0)

\* 100.0 = 25 * 2^2
Float100 == [m |-> Nat2Long(25), e |-> 2]

(* x / y for a double x and a double y of small mantissa, correctly rounded: *)
(* the quotient of the mantissas with two bits more than a double keeps,    *)
(* and whether a remainder is left.                                         *)
float_truediv(x, y) ==
    LET need == DBL_MANT_DIG + 2 + BitLength(y.m) - BitLength(x.m)
        guard == IF need > 0 THEN need ELSE 0
        d == DivMod(ShiftLeft(x.m, guard), Long2Nat(y.m))
    IN RoundToDouble(d.q, d.r # 0, x.e - y.e - guard)

\* int(x) of a double x >= 0: truncation
float_int(x) == IF x.e >= 0 THEN ShiftLeft(x.m, x.e) ELSE ShiftRight(x.m, -x.e)

RECURSIVE SumCapacities(_)
SumCapacities(data) ==
    IF data = <<>> THEN <<>>
    ELSE Add(SumCapacities(SubSeq(data, 1, Len(data) - 1)), int_str(data[Len(data)]))

\* the loop of lines 105-106 raises ValueError at one of the lines of `data`
sum_raises(data) == \E k \in 1..Len(data) : int_raises(data[k])

(* get_max_allowed_size (lines 99-110) on the disk.total lines `data`: the   *)
(* budget, or the ValueError of line 106.                                    *)
get_max_allowed_size(data, threshold) ==
    IF sum_raises(data) THEN "ValueError"
    ELSE LET i == SumCapacities(data)
         IN float_int(float_truediv(PyLong_AsDouble(MulSmall(i, threshold, 0)), Float100))

----------------------------------------------------------------------------
(* The inputs of a run. *)

\* values of INDEX_NAME_PREFIXES (line 10)
PrefixSettings ==
    { <<>>, <<"a">>, <<"b">>, <<"a", ",", "a", "b">>, <<"a", "b", ",", "c">> }

\* values of ELASTICSEARCH_HOST (line 8)
HostSettings == { "", "elasticsearch:9200" }

\* values of PERCENTAGE_THRESHOLD (line 9)
Thresholds == { 80, 100 }

(* answers of cat.allocation: the disk.total line of each node; the line of *)
(* a node without disk.total is blank (Spec)                                 *)
NodeLists == { <<>>, << <<1, 2, 5>> >>, << <<5, 0>>, <<7, 5>> >>, << <<1, 2, 5>>, <<>> >> }

\* store sizes and creation dates of the indices of the cluster (Spec)
ClusterSizes == { 0, 60 }
ClusterDates == { 100, 200 }

\* the name of the k-th index the backend lists: "a<k>" or "ab<k>"
IndexName(k) == IF k % 2 = 1 THEN <<"a", Digits[k + 1]>> ELSE <<"a", "b", Digits[k + 1]>>

(* An index of the backend: its name, the values of its store statistics    *)
(* (size_in_bytes first) and its creation_date setting.                     *)
Clusters ==
    UNION { { [k \in 1..n |-> [name |-> IndexName(k), store |-> <<sz[k], 0>>,
                                creation_date |-> cd[k]]] :
              sz \in [1..n -> ClusterSizes], cd \in [1..n -> ClusterDates] } :
            n \in 0..MaxIndices }

----------------------------------------------------------------------------
(* The state at the start of main(), after argument_parser (line 192). *)

Locals ==
    /\ counter = 0
    /\ attempts = 0
    /\ sleeps = 0
    /\ last_probe = "none"
    /\ es = "none"
    /\ max_allowed_size = <<>>
    /\ prefix_i = 1
    /\ names = <<>>
    /\ indices = <<>>
    /\ sorted_indices = <<>>
    /\ pos = 1
    /\ indices_to_delete = <<>>
    /\ indices_size_counter = 0
    /\ kept = <<>>
    /\ delete_calls = <<>>
    /\ delete_errors = <<>>
    /\ printed = <<>>
    /\ nodes = <<>>
    /\ exit_status = -1
    /\ error = "none"

Init ==
    /\ pc = "output_log_config"
    /\ dry \in BOOLEAN
    /\ index_name_prefixes \in {[str |-> s] : s \in PrefixSettings}
    /\ elasticsearch_host \in HostSettings
    /\ percentage_threshold \in Thresholds
    /\ cluster \in Clusters
    /\ Locals

----------------------------------------------------------------------------
(* The steps of main() (lines 184-220). *)

\* the process ends: sys.exit(status), an uncaught exception, or main returning
Exit(status, why) ==
    /\ pc' = "exited"
    /\ exit_status' = status
    /\ error' = why

(* output_log_config (lines 36-47), called at line 196. basicConfig is given *)
(* handlers=stdout_handler, a handler where it wants an iterable: when the   *)
(* root logger has no handler yet it iterates over it and raises TypeError,  *)
(* which nothing catches; when the root logger has handlers already (the     *)
(* embedding program configured logging) it returns at once.                 *)
OutputLogConfig ==
    /\ pc = "output_log_config"
    /\ \E root_has_handlers \in BOOLEAN :
          IF root_has_handlers
          THEN pc' = "env_validation" /\ UNCHANGED <<exit_status, error>>
          ELSE Exit(1, "TypeError")
    /\ UNCHANGED << dry, index_name_prefixes, elasticsearch_host, percentage_threshold,
                    cluster, counter, attempts, sleeps, last_probe, es, max_allowed_size,
                    prefix_i, names, indices, sorted_indices, pos, indices_to_delete,
                    indices_size_counter, kept, delete_calls, delete_errors, printed,
                    nodes >>

(* A variant of EnvValidation without the test of line 57. *)
EnvValidationPrefixesOnly ==
    /\ pc = "env_validation"
    /\ IF index_name_prefixes.str = <<>> THEN Exit(1, "SystemExit")
       ELSE pc' = "split" /\ UNCHANGED <<exit_status, error>>
    /\ UNCHANGED << dry, index_name_prefixes, elasticsearch_host, percentage_threshold,
                    cluster, counter, attempts, sleeps, last_probe, es, max_allowed_size,
                    prefix_i, names, indices, sorted_indices, pos, indices_to_delete,
                    indices_size_counter, kept, delete_calls, delete_errors, printed,
                    nodes >>

(* env_validation (lines 49-61), called at line 199. *)
EnvValidation ==
    /\ pc = "env_validation"
    /\ IF index_name_prefixes.str = <<>> THEN Exit(1, "SystemExit")
       ELSE IF elasticsearch_host = "" THEN Exit(1, "SystemExit")
       ELSE pc' = "split" /\ UNCHANGED <<exit_status, error>>
    /\ UNCHANGED << dry, index_name_prefixes, elasticsearch_host, percentage_threshold,
                    cluster, counter, attempts, sleeps, last_probe, es, max_allowed_size,
                    prefix_i, names, indices, sorted_indices, pos, indices_to_delete,
                    indices_size_counter, kept, delete_calls, delete_errors, printed,
                    nodes >>

\* str.split(sep) for a one-character sep
RECURSIVE split(_, _)
split(str, sep) ==
    IF \A i \in 1..Len(str) : str[i] # sep THEN <<str>>
    ELSE LET i == CHOOSE j \in 1..Len(str) :
                     str[j] = sep /\ \A k \in 1..(j - 1) : str[k] # sep
         IN <<SubSeq(str, 1, i - 1)>> \o split(SubSeq(str, i + 1, Len(str)), sep)

(* index_name_prefixes = index_name_prefixes.split(","), line 202. *)
SplitPrefixes ==
    /\ pc = "split"
    /\ index_name_prefixes' = [list |-> split(index_name_prefixes.str, ",")]
    /\ pc' = "es_connect"
    /\ UNCHANGED << dry, elasticsearch_host, percentage_threshold,
                    cluster, counter, attempts, sleeps, last_probe, es, max_allowed_size,
                    prefix_i, names, indices, sorted_indices, pos, indices_to_delete,
                    indices_size_counter, kept, delete_calls, delete_errors, printed,
                    nodes, exit_status, error >>

\* es_connect, line 68
max_attempts == 2

\* a variant of attempts_exhausted that gives up one failure later
attempts_exhausted_late(failed) == failed > max_attempts

\* es_connect, line 90, on the counter as incremented at line 89
attempts_exhausted(failed) == failed = max_attempts

(* es_connect (lines 63-97), one pass of its loop up to the sleep: the       *)
(* connection and the health probe succeed, raise ConnectionError, or raise  *)
(* something else, which nothing catches.                                    *)
ConnectAttempt ==
    /\ pc = "es_connect"
    /\ attempts' = attempts + 1
    /\ \E probe \in {"ok", "ConnectionError", "TransportError"} :
          /\ last_probe' = probe
          /\ CASE probe = "ok" ->
                    /\ es' = "handle"
                    /\ pc' = "get_max_allowed_size"
                    /\ UNCHANGED <<counter, exit_status, error>>
               [] probe = "ConnectionError" ->
                    /\ counter' = counter + 1
                    /\ IF attempts_exhausted(counter + 1)
                       THEN Exit(1, "SystemExit")
                       ELSE pc' = "es_sleep" /\ UNCHANGED <<exit_status, error>>
                    /\ UNCHANGED es
               [] probe = "TransportError" ->
                    /\ Exit(1, "TransportError")
                    /\ UNCHANGED <<counter, es>>
    /\ UNCHANGED << dry, index_name_prefixes, elasticsearch_host, percentage_threshold,
                    cluster, sleeps, max_allowed_size,
                    prefix_i, names, indices, sorted_indices, pos, indices_to_delete,
                    indices_size_counter, kept, delete_calls, delete_errors, printed,
                    nodes >>

(* time.sleep(10), lines 94-95, reached only from the except clause. *)
Sleep ==
    /\ pc = "es_sleep"
    /\ sleeps' = sleeps + 1
    /\ pc' = "es_connect"
    /\ UNCHANGED << dry, index_name_prefixes, elasticsearch_host, percentage_threshold,
                    cluster, counter, attempts, last_probe, es, max_allowed_size,
                    prefix_i, names, indices, sorted_indices, pos, indices_to_delete,
                    indices_size_counter, kept, delete_calls, delete_errors, printed,
                    nodes, exit_status, error >>

(* get_max_allowed_size(es, percentage_threshold), the argument of line 212. *)
(* cat.allocation (line 104) raises, which nothing catches; or it answers    *)
(* disk.total lines, one of `answers`: a line without a digit makes int(node) *)
(* raise ValueError (line 106), which nothing catches either; otherwise the  *)
(* budget is returned.                                                       *)
GetMaxAllowedSize(answers) ==
    /\ pc = "get_max_allowed_size"
    /\ \/ /\ Exit(1, "TransportError")
          /\ UNCHANGED <<nodes, max_allowed_size>>
       \/ \E data \in answers :
             /\ nodes' = data
             /\ IF sum_raises(data)
                THEN /\ Exit(1, get_max_allowed_size(data, percentage_threshold))
                     /\ UNCHANGED max_allowed_size
                ELSE /\ max_allowed_size' = get_max_allowed_size(data, percentage_threshold)
                     /\ pc' = "collect"
                     /\ UNCHANGED <<exit_status, error>>
    /\ UNCHANGED << dry, index_name_prefixes, elasticsearch_host, percentage_threshold,
                    cluster, counter, attempts, sleeps, last_probe, es,
                    prefix_i, names, indices, sorted_indices, pos, indices_to_delete,
                    indices_size_counter, kept, delete_calls, delete_errors, printed >>

----------------------------------------------------------------------------
(* get_actionable_indices (lines 133-162). *)

\* es.indices.get_alias(index=prefix + "*").keys(), line 148
RECURSIVE get_alias(_, _)
get_alias(backend, prefix) ==
    IF backend = <<>> THEN <<>>
    ELSE (IF IsPrefix(prefix, Head(backend).name) THEN <<Head(backend).name>> ELSE <<>>)
         \o get_alias(Tail(backend), prefix)

\* get_first_item (lines 112-116): the first value of the dict
get_first_item(a_dict) == a_dict[1]

(* line 148 for the next prefix: es.indices.get_alias answers the names of   *)
(* the indices that match it, or it raises, which nothing catches.           *)
GetAlias ==
    /\ pc = "collect"
    /\ names = <<>>
    /\ prefix_i <= Len(index_name_prefixes.list)
    /\ prefix_i' = prefix_i + 1
    /\ \E answer \in {"ok", "TransportError"} :
          IF answer = "ok"
          THEN /\ names' = get_alias(cluster, index_name_prefixes.list[prefix_i])
               /\ UNCHANGED <<pc, exit_status, error>>
          ELSE /\ Exit(1, "TransportError")
               /\ UNCHANGED names
    /\ UNCHANGED << dry, index_name_prefixes, elasticsearch_host, percentage_threshold,
                    cluster, counter, attempts, sleeps, last_probe, es, max_allowed_size,
                    indices, sorted_indices, pos, indices_to_delete,
                    indices_size_counter, kept, delete_calls, delete_errors, printed,
                    nodes >>

(* A variant of FetchMetadata that tolerates a failure: the name whose       *)
(* metadata cannot be fetched is skipped and the collection goes on.         *)
FetchMetadataSkips ==
    /\ pc = "collect"
    /\ names # <<>>
    /\ \E answer \in {"ok", "TransportError"} :
          IF answer = "ok"
          THEN LET name == Head(names)
                   entry == CHOOSE x \in Range(cluster) : x.name = name
                   size == get_first_item(entry.store)
               IN indices' = Append(indices, index_struct(name, size, entry.creation_date))
          ELSE UNCHANGED indices
    /\ names' = Tail(names)
    /\ UNCHANGED << pc, dry, index_name_prefixes, elasticsearch_host, percentage_threshold,
                    cluster, counter, attempts, sleeps, last_probe, es, max_allowed_size,
                    prefix_i, sorted_indices, pos, indices_to_delete,
                    indices_size_counter, kept, delete_calls, delete_errors, printed,
                    nodes, exit_status, error >>

(* lines 149-151 for the next name: es.indices.stats and es.indices.get      *)
(* answer and the index_struct is appended, or one of them raises, which     *)
(* nothing catches.                                                          *)
FetchMetadata ==
    /\ pc = "collect"
    /\ names # <<>>
    /\ \E answer \in {"ok", "TransportError"} :
          IF answer = "ok"
          THEN LET name == Head(names)
                   entry == CHOOSE x \in Range(cluster) : x.name = name
                   size == get_first_item(entry.store)
               IN /\ indices' = Append(indices, index_struct(name, size, entry.creation_date))
                  /\ names' = Tail(names)
                  /\ UNCHANGED <<pc, exit_status, error>>
          ELSE /\ Exit(1, "TransportError")
               /\ UNCHANGED <<indices, names>>
    /\ UNCHANGED << dry, index_name_prefixes, elasticsearch_host, percentage_threshold,
                    cluster, counter, attempts, sleeps, last_probe, es, max_allowed_size,
                    prefix_i, sorted_indices, pos, indices_to_delete,
                    indices_size_counter, kept, delete_calls, delete_errors, printed,
                    nodes >>

(* lines 157-159: the loop over the prefixes is over; the plan and the       *)
(* counter are initialised and the collected indices sorted.                 *)
Sorted ==
    /\ pc = "collect"
    /\ names = <<>>
    /\ prefix_i > Len(index_name_prefixes.list)
    /\ indices_to_delete' = <<>>
    /\ indices_size_counter' = 0
    /\ sorted_indices' = sorted_reverse(indices)
    /\ pos' = 1
    /\ pc' = "select"
    /\ UNCHANGED << dry, index_name_prefixes, elasticsearch_host, percentage_threshold,
                    cluster, counter, attempts, sleeps, last_probe, es, max_allowed_size,
                    prefix_i, names, indices, kept, delete_calls, delete_errors, printed,
                    nodes, exit_status, error >>

\* the budget as a number of the model (the budgets of Spec and SpecSelect are small)
limit == Long2Nat(max_allowed_size)

(* line 160: one iteration of the loop over the sorted indices. *)
SelectStep ==
    /\ pc = "select"
    /\ pos <= Len(sorted_indices)
    /\ LET index == sorted_indices[pos]
           r == indices_smaller_then_max_allowed_size(
                    index, limit, indices_size_counter, indices_to_delete)
       IN /\ indices_to_delete' = r.indices_to_delete
          /\ indices_size_counter' = r.indices_size_counter
          /\ kept' = IF r.log = "Do not add into actionable list"
                     THEN Append(kept, index.name) ELSE kept
    /\ pos' = pos + 1
    /\ UNCHANGED << pc, dry, index_name_prefixes, elasticsearch_host, percentage_threshold,
                    cluster, counter, attempts, sleeps, last_probe, es, max_allowed_size,
                    prefix_i, names, indices, sorted_indices, delete_calls, delete_errors,
                    printed, nodes, exit_status, error >>

(* line 162: the loop is over, indices_to_delete is returned to main. *)
ReturnPlan ==
    /\ pc = "select"
    /\ pos > Len(sorted_indices)
    /\ pc' = "dry_run"
    /\ UNCHANGED << dry, index_name_prefixes, elasticsearch_host, percentage_threshold,
                    cluster, counter, attempts, sleeps, last_probe, es, max_allowed_size,
                    prefix_i, names, indices, sorted_indices, pos, indices_to_delete,
                    indices_size_counter, kept, delete_calls, delete_errors, printed,
                    nodes, exit_status, error >>

----------------------------------------------------------------------------
(* The end of main() (lines 214-220) and delete_indices (lines 164-182). *)

(* A variant of DryRun without the sys.exit(1) of line 217: the plan is     *)
(* printed and main goes on to delete_indices.                              *)
DryRunGoesOn ==
    /\ pc = "dry_run"
    /\ printed' = IF dry THEN Append(printed, indices_to_delete) ELSE printed
    /\ pc' = "delete_indices"
    /\ UNCHANGED << dry, index_name_prefixes, elasticsearch_host, percentage_threshold,
                    cluster, counter, attempts, sleeps, last_probe, es, max_allowed_size,
                    prefix_i, names, indices, sorted_indices, pos, indices_to_delete,
                    indices_size_counter, kept, delete_calls, delete_errors, nodes,
                    exit_status, error >>

(* lines 215-217: with --dry_run the plan is printed and the process exits 1. *)
DryRun ==
    /\ pc = "dry_run"
    /\ IF dry
       THEN /\ printed' = Append(printed, indices_to_delete)
            /\ Exit(1, "SystemExit")
       ELSE /\ pc' = "delete_indices"
            /\ UNCHANGED <<printed, exit_status, error>>
    /\ UNCHANGED << dry, index_name_prefixes, elasticsearch_host, percentage_threshold,
                    cluster, counter, attempts, sleeps, last_probe, es, max_allowed_size,
                    prefix_i, names, indices, sorted_indices, pos, indices_to_delete,
                    indices_size_counter, kept, delete_calls, delete_errors, nodes >>

\* the backend without the index `name`
RECURSIVE Without(_, _)
Without(backend, name) ==
    IF backend = <<>> THEN <<>>
    ELSE (IF Head(backend).name = name THEN <<>> ELSE <<Head(backend)>>)
         \o Without(Tail(backend), name)

(* lines 168-181 for the next name of the plan. es.indices.delete deletes    *)
(* the index; or it raises ValueError (the client rejects its argument),     *)
(* which is caught and logged; or it raises one of elasticsearch.exceptions  *)
(* (NotFoundError when the index is absent, another TransportError at any    *)
(* time): these derive from Exception, not from ValueError, so the except    *)
(* clause of line 175 lets them through and they end the run.                *)
DeleteStep ==
    /\ pc = "delete_indices"
    /\ Len(delete_calls) < Len(indices_to_delete)
    /\ LET index == indices_to_delete[Len(delete_calls) + 1]
           present == \E x \in Range(cluster) : x.name = index
       IN /\ delete_calls' = Append(delete_calls, index)
          /\ \E answer \in {"ok", "ValueError", "NotFoundError", "TransportError"} :
                /\ answer = "ok" => present
                /\ answer = "NotFoundError" => ~present
                /\ CASE answer = "ok" ->
                          /\ cluster' = Without(cluster, index)
                          /\ UNCHANGED <<pc, delete_errors, exit_status, error>>
                     [] answer = "ValueError" ->
                          /\ delete_errors' = Append(delete_errors, index)
                          /\ UNCHANGED <<pc, cluster, exit_status, error>>
                     [] OTHER ->
                          /\ Exit(1, answer)
                          /\ UNCHANGED <<cluster, delete_errors>>
    /\ UNCHANGED << dry, index_name_prefixes, elasticsearch_host, percentage_threshold,
                    counter, attempts, sleeps, last_probe, es, max_allowed_size,
                    prefix_i, names, indices, sorted_indices, pos, indices_to_delete,
                    indices_size_counter, kept, printed, nodes >>

(* line 182 and the end of main: the process ends with status 0. *)
DeleteDone ==
    /\ pc = "delete_indices"
    /\ Len(delete_calls) = Len(indices_to_delete)
    /\ Exit(0, "none")
    /\ UNCHANGED << dry, index_name_prefixes, elasticsearch_host, percentage_threshold,
                    cluster, counter, attempts, sleeps, last_probe, es, max_allowed_size,
                    prefix_i, names, indices, sorted_indices, pos, indices_to_delete,
                    indices_size_counter, kept, delete_calls, delete_errors, printed,
                    nodes >>

----------------------------------------------------------------------------
(* A whole run. *)

Next ==
    \/ OutputLogConfig
    \/ EnvValidation
    \/ SplitPrefixes
    \/ ConnectAttempt
    \/ Sleep
    \/ GetMaxAllowedSize(NodeLists)
    \/ GetAlias
    \/ FetchMetadata
    \/ Sorted
    \/ SelectStep
    \/ ReturnPlan
    \/ DryRun
    \/ DeleteStep
    \/ DeleteDone

Spec == Init /\ [][Next]_vars

\* the process runs until it ends
FairSpec == Spec /\ WF_vars(Next)

----------------------------------------------------------------------------
(* The selection alone: the run has collected `indices` (lines 146-151) and  *)
(* is about to sort them, for every list of up to MaxLen indices.            *)

Letters == <<"A", "B", "C", "D", "E", "F">>

SelectSizes == { 0, 10, 50, 60 }
SelectDates == { 100, 200, 300 }

\* the disk.total lines and the threshold behind the budgets 0, 50 and 100
SelectBudgets ==
    { [nodes |-> <<>>, threshold |-> 80],
      [nodes |-> << <<5, 0>> >>, threshold |-> 100],
      [nodes |-> << <<1, 2, 5>> >>, threshold |-> 80] }

SelectInputs ==
    UNION { { [k \in 1..n |-> index_struct(<<Letters[k]>>, sz[k], cd[k])] :
              sz \in [1..n -> SelectSizes], cd \in [1..n -> SelectDates] } :
            n \in 0..MaxLen }

InitSelect ==
    /\ pc = "collect"
    /\ dry = FALSE
    /\ index_name_prefixes = [list |-> [k \in 1..MaxLen |-> <<Letters[k]>>]]
    /\ elasticsearch_host = "elasticsearch:9200"
    /\ \E b \in SelectBudgets :
          /\ percentage_threshold = b.threshold
          /\ nodes = b.nodes
          /\ max_allowed_size = get_max_allowed_size(b.nodes, b.threshold)
    /\ indices \in SelectInputs
    /\ cluster = [k \in 1..Len(indices) |->
                     [name |-> indices[k].name, store |-> <<indices[k].size, 0>>,
                      creation_date |-> indices[k].creation_date]]
    /\ counter = 0
    /\ attempts = 1
    /\ sleeps = 0
    /\ last_probe = "ok"
    /\ es = "handle"
    /\ prefix_i = MaxLen + 1
    /\ names = <<>>
    /\ sorted_indices = <<>>
    /\ pos = 1
    /\ indices_to_delete = <<>>
    /\ indices_size_counter = 0
    /\ kept = <<>>
    /\ delete_calls = <<>>
    /\ delete_errors = <<>>
    /\ printed = <<>>
    /\ exit_status = -1
    /\ error = "none"

NextSelect == Sorted \/ SelectStep \/ ReturnPlan

SpecSelect == InitSelect /\ [][NextSelect]_vars

----------------------------------------------------------------------------
(* The budget alone: the run is connected and calls get_max_allowed_size,   *)
(* for disk capacities up to those of a cluster of petabytes.               *)

BudgetCapacityLines ==
    { <<>>, <<0>>, <<1>>, <<5, 0>>, <<1, 2, 5>>,
      <<9, 0, 0, 7, 1, 9, 9, 2, 5, 4, 7, 4, 0, 9, 9, 3>> }

BudgetThresholds == 0..100

InitBudget ==
    /\ pc = "get_max_allowed_size"
    /\ dry = FALSE
    /\ index_name_prefixes = [list |-> << <<"a">> >>]
    /\ elasticsearch_host = "elasticsearch:9200"
    /\ percentage_threshold \in BudgetThresholds
    /\ cluster = <<>>
    /\ counter = 0
    /\ attempts = 1
    /\ sleeps = 0
    /\ last_probe = "ok"
    /\ es = "handle"
    /\ max_allowed_size = <<>>
    /\ prefix_i = 1
    /\ names = <<>>
    /\ indices = <<>>
    /\ sorted_indices = <<>>
    /\ pos = 1
    /\ indices_to_delete = <<>>
    /\ indices_size_counter = 0
    /\ kept = <<>>
    /\ delete_calls = <<>>
    /\ delete_errors = <<>>
    /\ printed = <<>>
    /\ nodes = <<>>
    /\ exit_status = -1
    /\ error = "none"

NextBudget == GetMaxAllowedSize(SeqsUpTo(BudgetCapacityLines, MaxNodes))

SpecBudget == InitBudget /\ [][NextBudget]_vars

----------------------------------------------------------------------------
(* The selection, as the specification states it. *)

\* the selection has visited every index
Selected == pc = "dry_run"

\* usedBytes before the k-th record of `s` is visited, with budget b
RECURSIVE UsedBefore(_, _, _)
UsedBefore(s, b, k) ==
    IF k = 1 THEN 0
    ELSE LET u == UsedBefore(s, b, k - 1)
         IN IF u < b /\ u + s[k - 1].size < b THEN u + s[k - 1].size ELSE u

\* the k-th record of `s` is kept
KeptAt(s, b, k) == UsedBefore(s, b, k) < b /\ UsedBefore(s, b, k) + s[k].size < b

\* the names of the first n records of `s` that are kept (keep) or not (~keep)
RECURSIVE NamesOf(_, _, _, _)
NamesOf(s, b, n, keep) ==
    IF n = 0 THEN <<>>
    ELSE NamesOf(s, b, n - 1, keep)
         \o (IF KeptAt(s, b, n) = keep THEN <<s[n].name>> ELSE <<>>)

\* `s` holds the records of `input`, the newest first
NewestFirst(s, input) ==
    /\ BagOf(s) = BagOf(input)
    /\ \A i \in 1..(Len(s) - 1) : s[i].creation_date >= s[i + 1].creation_date

ExampleInput ==
    << index_struct(<<"A">>, 50, 300), index_struct(<<"B">>, 60, 200),
       index_struct(<<"C">>, 10, 100) >>

(* C1: the records are visited newest first with usedBytes starting at 0; a *)
(* record is kept, and its size added to usedBytes, exactly when usedBytes  *)
(* < budget and usedBytes + sizeBytes < budget at its turn, and is marked   *)
(* for deletion with usedBytes unchanged otherwise; for A(300,50),          *)
(* B(200,60), C(100,10) and budget 100 the deletion sequence is [B].        *)
C1_SelectionRule ==
    pc \in {"select", "dry_run"} =>
        /\ NewestFirst(sorted_indices, indices)
        /\ indices_size_counter = UsedBefore(sorted_indices, limit, pos)
        /\ indices_to_delete = NamesOf(sorted_indices, limit, pos - 1, FALSE)
        /\ kept = NamesOf(sorted_indices, limit, pos - 1, TRUE)
        /\ (Selected /\ indices = ExampleInput /\ limit = 100) =>
               indices_to_delete = << <<"B">> >>

C1_Witness ==
    /\ Selected
    /\ indices = ExampleInput
    /\ limit = 100
    /\ indices_to_delete = << <<"B">> >>
    /\ kept = << <<"A">>, <<"C">> >>
    /\ indices_size_counter = 60

InputNames == [k \in 1..Len(indices) |-> indices[k].name]

(* C2: the selection partitions its input: every record is kept or marked   *)
(* for deletion, never both and never twice, so the deletion sequence is    *)
(* never longer than the input, and kept plus deleted names are the input   *)
(* names, once each.                                                        *)
C2_Partition ==
    /\ Len(indices_to_delete) <= Len(indices)
    /\ Range(kept) \cap Range(indices_to_delete) = {}
    /\ pc \in {"select", "dry_run"} =>
          BagOf(kept) (+) BagOf(indices_to_delete)
              = BagOf([k \in 1..(pos - 1) |-> sorted_indices[k].name])
    /\ Selected => BagOf(kept) (+) BagOf(indices_to_delete) = BagOf(InputNames)

C2_Witness ==
    /\ Selected
    /\ Len(indices) = MaxLen
    /\ Len(kept) >= 1
    /\ Len(indices_to_delete) >= 2

\* the names of a list of records, in its order
Names(s) == [k \in 1..Len(s) |-> s[k].name]

(* C6: with budget 0 the selection returns every index name of the input,   *)
(* in descending order of creation timestamp, whatever the sizes.           *)
C6_ZeroBudget ==
    (Selected /\ limit = 0) =>
        /\ indices_to_delete = Names(sorted_indices)
        /\ Range(indices_to_delete) = Range(InputNames)
        /\ Len(indices_to_delete) = Len(indices)
        /\ \A i \in 1..(Len(sorted_indices) - 1) :
              sorted_indices[i].creation_date >= sorted_indices[i + 1].creation_date

C6_Witness ==
    /\ Selected
    /\ limit = 0
    /\ Len(indices) = MaxLen
    /\ \E i \in 1..Len(indices) : indices[i].size = 0
    /\ \E i \in 1..Len(indices) : indices[i].size > 0
    /\ indices_to_delete = Names(sorted_indices)
    /\ indices_to_delete # InputNames

(* C7: an index whose size alone exceeds the budget is marked for deletion, *)
(* wherever it falls in the order and whatever the other records are.       *)
C7_OversizedDeleted ==
    Selected =>
        \A i \in 1..Len(indices) :
            indices[i].size > limit => indices[i].name \in Range(indices_to_delete)

C7_Witness ==
    /\ Selected
    /\ limit > 0
    /\ \E i \in 1..Len(sorted_indices) :
          /\ sorted_indices[i].size > limit
          /\ i > 1
          /\ sorted_indices[i].name \in Range(indices_to_delete)
          /\ sorted_indices[1].name \in Range(kept)

(* C8: when every index has size 0 and the budget is positive, the deletion *)
(* sequence is empty, for any number of records and any timestamps.         *)
C8_AllEmptyKept ==
    (Selected /\ limit > 0 /\ \A i \in 1..Len(indices) : indices[i].size = 0) =>
        indices_to_delete = <<>>

C8_Witness ==
    /\ Selected
    /\ limit > 0
    /\ Len(indices) = MaxLen
    /\ \A i \in 1..Len(indices) : indices[i].size = 0
    /\ indices_to_delete = <<>>
    /\ Len(kept) = MaxLen

\* a stable sort of `s` by ascending creation timestamp
RECURSIVE InsertAsc(_, _)
InsertAsc(s, x) ==
    IF s = <<>> THEN <<x>>
    ELSE IF Head(s).creation_date <= x.creation_date
         THEN <<Head(s)>> \o InsertAsc(Tail(s), x)
         ELSE <<x>> \o s

RECURSIVE SortedAscending(_)
SortedAscending(s) ==
    IF s = <<>> THEN <<>>
    ELSE InsertAsc(SortedAscending(SubSeq(s, 1, Len(s) - 1)), s[Len(s)])

\* the place of the record named n in the input
PlaceOf(n) == CHOOSE k \in 1..Len(indices) : indices[k].name = n

\* sorted_indices is the input by descending timestamp, ties in input order
StableDescending ==
    /\ NewestFirst(sorted_indices, indices)
    /\ \A i, j \in 1..Len(sorted_indices) :
          (i < j /\ sorted_indices[i].creation_date = sorted_indices[j].creation_date)
              => PlaceOf(sorted_indices[i].name) < PlaceOf(sorted_indices[j].name)

\* the plan of the selection run over the reversal of the ascending sort
PlanOfReversedAscending ==
    select_loop(Reverse(SortedAscending(indices)), limit, 0, <<>>)

DistinctDates ==
    \A i, j \in 1..Len(indices) :
        i # j => indices[i].creation_date # indices[j].creation_date

(* C9 as stated: the sort is stable and by descending creation timestamp,   *)
(* and for every input, ties included, the selection over the reversal of   *)
(* the stably ascending-sorted input gives the same result as the selection *)
(* over the input sorted descending. The result is read here as the set of  *)
(* the names selected, whatever their order: even that differs.             *)
C9_AsStated ==
    Selected =>
        /\ StableDescending
        /\ Range(PlanOfReversedAscending) = Range(indices_to_delete)

(* C9, amended: the sort is stable and by descending creation timestamp for *)
(* every input; the selection over the reversal of the stably               *)
(* ascending-sorted input gives the same result whenever the creation       *)
(* timestamps of the input are pairwise distinct.                           *)
C9_ReversalWithDistinctDates ==
    Selected =>
        /\ StableDescending
        /\ DistinctDates => PlanOfReversedAscending = indices_to_delete

C9_Witness ==
    /\ Selected
    /\ DistinctDates
    /\ Len(indices) = 3
    /\ sorted_indices # indices
    /\ sorted_indices # Reverse(indices)
    /\ indices_to_delete # <<>>
    /\ kept # <<>>
    /\ PlanOfReversedAscending = indices_to_delete

----------------------------------------------------------------------------
(* The run: the executor, the dry run, the connection. *)

(* C3: in a live run a delete call is attempted for every name of the plan: *)
(* a failure of the delete call for one index, the index being absent       *)
(* included, is caught and logged and neither prevents the delete calls for *)
(* the names after it nor crashes the run.                                  *)
C3_DeleteFailuresTolerated ==
    (pc = "exited" /\ delete_calls # <<>>) =>
        /\ delete_calls = indices_to_delete
        /\ error = "none"

(* C4: with --dry_run no delete call is ever issued: once the plan is       *)
(* computed it is printed in full and the process ends with a non-zero exit *)
(* status, for every plan, empty or not.                                    *)
C4_DryRun ==
    /\ [](dry => (delete_calls = <<>> /\ pc # "delete_indices"))
    /\ [][(dry /\ pc = "dry_run") =>
             (/\ printed' = <<indices_to_delete>>
              /\ indices_to_delete' = indices_to_delete
              /\ pc' = "exited"
              /\ exit_status' # 0)]_vars
    /\ (dry /\ pc = "dry_run") ~> (pc = "exited" /\ printed = <<indices_to_delete>>)

C4_Witness ==
    /\ dry
    /\ pc = "exited"
    /\ Len(indices_to_delete) >= 2
    /\ printed = <<indices_to_delete>>
    /\ exit_status = 1
    /\ delete_calls = <<>>

Connecting == pc \in {"es_connect", "es_sleep"}

(* C5: es_connect always terminates and makes at most 2 connection          *)
(* attempts: a handle is returned only after an attempt whose health probe  *)
(* succeeded, with no wait after it; after a transport failure of the first *)
(* attempt it waits once and retries; after the second transport failure it *)
(* ends the run with a failure status, without a third attempt.             *)
C5_BoundedConnect ==
    /\ [](attempts <= 2 /\ sleeps <= 1)
    /\ [](es = "handle" => (last_probe = "ok" /\ sleeps = attempts - 1))
    /\ [](pc = "es_sleep" => (attempts = 1 /\ last_probe = "ConnectionError"))
    /\ [][(pc = "es_connect" /\ attempts = 0 /\ last_probe' = "ConnectionError")
             => pc' = "es_sleep"]_vars
    /\ [][pc = "es_sleep" => (sleeps' = sleeps + 1 /\ pc' = "es_connect")]_vars
    /\ [][(pc = "es_connect" /\ attempts = 1 /\ last_probe' = "ConnectionError")
             => (pc' = "exited" /\ exit_status' # 0 /\ es' = "none")]_vars
    /\ Connecting ~> ~Connecting

C5_Witness ==
    /\ es = "handle"
    /\ attempts = 2
    /\ sleeps = 1
    /\ counter = 1
    /\ last_probe = "ok"

----------------------------------------------------------------------------
(* The budget. *)

\* the sum of the capacities the backend answered
TotalCapacity == SumCapacities(nodes)

\* TotalCapacity * percentage_threshold / 100, truncated
ExactBudget == DivMod(MulSmall(TotalCapacity, percentage_threshold, 0), 100).q

(* C10: the budget is the sum of the per-node disk capacities multiplied by *)
(* thresholdPercent/100 and truncated toward zero; for every threshold in   *)
(* [0,100] and every set of capacities 0 <= budget <= total capacity, and   *)
(* with zero nodes the budget is 0.                                         *)
C10_BudgetWithinCapacity ==
    pc = "collect" =>
        /\ LessEq(max_allowed_size, TotalCapacity)
        /\ max_allowed_size = ExactBudget
        /\ nodes = <<>> => max_allowed_size = <<>>

----------------------------------------------------------------------------
(* The run: failures of the collection and of the configuration, the exit    *)
(* status.                                                                   *)

\* the names the alias lookups of line 148 resolve, prefix after prefix
RECURSIVE Resolved(_, _)
Resolved(backend, prefixes) ==
    IF prefixes = <<>> THEN <<>>
    ELSE get_alias(backend, Head(prefixes)) \o Resolved(backend, Tail(prefixes))

(* C11: a failure to fetch the metadata of a resolved name aborts the run    *)
(* before the plan is built: a step of the collection that adds no record    *)
(* ends the process with a failure status, with no plan and no delete call,  *)
(* and nothing happens after the process has ended; the selection only ever  *)
(* runs on the records of every resolved name.                               *)
C11_MetadataFailureAborts ==
    /\ [][(pc = "collect" /\ names # <<>> /\ indices' = indices) =>
             (/\ pc' = "exited"
              /\ exit_status' # 0
              /\ sorted_indices' = <<>>
              /\ indices_to_delete' = <<>>
              /\ delete_calls' = <<>>)]_vars
    /\ [][pc # "exited"]_vars
    /\ [](pc \in {"select", "dry_run"} =>
             Names(indices) = Resolved(cluster, index_name_prefixes.list))

C11_Witness ==
    /\ pc = "exited"
    /\ ~dry
    /\ error = "TransportError"
    /\ names # <<>>
    /\ Len(indices) >= 1
    /\ indices_to_delete = <<>>
    /\ delete_calls = <<>>

\* a required configuration value is empty
EmptyConfiguration == index_name_prefixes = [str |-> <<>>] \/ elasticsearch_host = ""

(* C12: an empty INDEX_NAME_PREFIXES or ELASTICSEARCH_HOST ends the run with *)
(* a failure status before any backend contact: no connection attempt, no    *)
(* stats query, no delete call; the step of the validation on an empty      *)
(* value is the exit with a failure status, and the run takes it.            *)
C12_EmptyConfigurationFatal ==
    /\ [](EmptyConfiguration =>
             /\ pc \in {"output_log_config", "env_validation", "exited"}
             /\ attempts = 0
             /\ es = "none"
             /\ nodes = <<>>
             /\ names = <<>>
             /\ indices = <<>>
             /\ delete_calls = <<>>
             /\ pc = "exited" => exit_status # 0)
    /\ [][(pc = "env_validation" /\ EmptyConfiguration) =>
             (pc' = "exited" /\ exit_status' # 0)]_vars
    /\ (pc = "env_validation" /\ EmptyConfiguration) ~> (pc = "exited" /\ exit_status # 0)

C12_Witness ==
    /\ pc = "exited"
    /\ elasticsearch_host = ""
    /\ index_name_prefixes # [str |-> <<>>]
    /\ error = "SystemExit"
    /\ exit_status = 1
    /\ attempts = 0
    /\ delete_calls = <<>>

(* C13: the exit status is 0 when a live run ends in or after the deletion   *)
(* phase, also when deletions of single indices failed, and non-zero when    *)
(* the run ends at the environment validation, at the connection or at the   *)
(* dry run.                                                                  *)
C13_ExitStatus ==
    /\ [][(pc = "delete_indices" /\ pc' = "exited") => exit_status' = 0]_vars
    /\ [][(pc = "env_validation" /\ pc' = "exited") => exit_status' # 0]_vars
    /\ [][(pc = "es_connect" /\ pc' = "exited") => exit_status' # 0]_vars
    /\ [][(pc = "dry_run" /\ pc' = "exited") => exit_status' # 0]_vars

----------------------------------------------------------------------------
(* The selection: what it leaves, what it takes, its order. *)

\* the total size of the kept records among the first n visited
RECURSIVE KeptSize(_)
KeptSize(n) ==
    IF n = 0 THEN 0
    ELSE KeptSize(n - 1)
         + (IF sorted_indices[n].name \in Range(kept) THEN sorted_indices[n].size ELSE 0)

(* C14: at every step of the selection and at its end, usedBytes is the      *)
(* total size of the records kept so far and does not exceed the budget: it  *)
(* is below the budget when the budget is positive, and 0 when it is 0.      *)
C14_UsedWithinBudget ==
    pc \in {"select", "dry_run"} =>
        /\ indices_size_counter = KeptSize(pos - 1)
        /\ indices_size_counter <= limit
        /\ limit > 0 => indices_size_counter < limit
        /\ limit = 0 => indices_size_counter = 0

C14_Witness ==
    /\ Selected
    /\ limit = 50
    /\ Len(kept) = 2
    /\ Len(indices_to_delete) = 1
    /\ indices_size_counter = 20
    /\ KeptSize(Len(sorted_indices)) = 20

\* the input record i is in the plan
Planned(i) == indices[i].name \in Range(indices_to_delete)

(* C15 as stated: the plan is minimal: for every index of the plan, the      *)
(* final total size of the kept records plus the size of that index exceeds  *)
(* the budget.                                                               *)
C15_AsStated ==
    Selected =>
        \A i \in 1..Len(indices) :
            Planned(i) => indices_size_counter + indices[i].size > limit

(* C15, amended: for every index of the plan, the final total size of the    *)
(* kept records plus the size of that index reaches the budget (it is equal  *)
(* to it or above it).                                                       *)
C15_MinimalUpToEquality ==
    Selected =>
        \A i \in 1..Len(indices) :
            Planned(i) => indices_size_counter + indices[i].size >= limit

C15_Witness ==
    /\ Selected
    /\ limit = 100
    /\ kept # <<>>
    /\ \E i \in 1..Len(indices) :
          Planned(i) /\ indices_size_counter + indices[i].size = limit
    /\ \E i \in 1..Len(indices) :
          Planned(i) /\ indices_size_counter + indices[i].size > limit

(* C16 as stated: whenever an index is in the plan, every index of the input *)
(* with a strictly older creation timestamp is in the plan too.              *)
C16_AsStated ==
    Selected =>
        \A i, j \in 1..Len(indices) :
            (Planned(i) /\ indices[j].creation_date < indices[i].creation_date)
                => Planned(j)

(* C16, amended: whenever an index is in the plan, every index of the input  *)
(* with a strictly older creation timestamp and a size not smaller is in the *)
(* plan too.                                                                 *)
C16_OlderAndNotSmaller ==
    Selected =>
        \A i, j \in 1..Len(indices) :
            (/\ Planned(i)
             /\ indices[j].creation_date < indices[i].creation_date
             /\ indices[j].size >= indices[i].size)
                => Planned(j)

C16_Witness ==
    /\ Selected
    /\ kept # <<>>
    /\ \E i, j \in 1..Len(indices) :
          /\ Planned(i)
          /\ indices[j].creation_date < indices[i].creation_date
          /\ indices[j].size >= indices[i].size
          /\ indices[j].size < limit
          /\ Planned(j)

\* the elements of `s` are pairwise different
NoDuplicates(s) == \A i, j \in 1..Len(s) : i # j => s[i] # s[j]

\* the total of the store sizes of the indices of the backend
RECURSIVE StoreTotal(_)
StoreTotal(backend) ==
    IF backend = <<>> THEN 0
    ELSE get_first_item(Head(backend).store) + StoreTotal(Tail(backend))

(* C17: for every set of prefixes, overlapping ones included, the collector  *)
(* yields each index name at most once: no name is twice in the plan, and no *)
(* size is counted twice in usedBytes.                                       *)
C17_UniqueNames ==
    /\ NoDuplicates(Names(indices))
    /\ NoDuplicates(indices_to_delete)
    /\ pc \in {"select", "dry_run"} => indices_size_counter <= StoreTotal(cluster)

\* `p` is a subsequence of `s`
RECURSIVE IsSubseq(_, _)
IsSubseq(p, s) ==
    IF p = <<>> THEN TRUE
    ELSE IF s = <<>> THEN FALSE
    ELSE IF Head(p) = Head(s) THEN IsSubseq(Tail(p), Tail(s))
    ELSE IsSubseq(p, Tail(s))

\* the creation timestamp collected for the index `name`
DateOf(name) == (CHOOSE x \in Range(indices) : x.name = name).creation_date

(* C18: the plan is in the order of the iteration: a subsequence of the      *)
(* input sorted newest first, with non-increasing creation timestamps; in a  *)
(* live run the delete calls are issued one at a time, in the plan's order.  *)
C18_PlanOrder ==
    /\ []((pc \in {"select", "dry_run", "delete_indices"} \/ delete_calls # <<>>) =>
             /\ NewestFirst(sorted_indices, indices)
             /\ IsSubseq(indices_to_delete, Names(sorted_indices))
             /\ \A i \in 1..(Len(indices_to_delete) - 1) :
                   DateOf(indices_to_delete[i]) >= DateOf(indices_to_delete[i + 1]))
    /\ [](/\ Len(delete_calls) <= Len(indices_to_delete)
          /\ delete_calls = SubSeq(indices_to_delete, 1, Len(delete_calls)))
    /\ [][delete_calls' # delete_calls =>
             (/\ pc = "delete_indices"
              /\ ~dry
              /\ indices_to_delete' = indices_to_delete
              /\ delete_calls' = Append(delete_calls,
                                        indices_to_delete[Len(delete_calls) + 1]))]_vars

C18_Witness ==
    /\ pc = "exited"
    /\ ~dry
    /\ error = "none"
    /\ Len(indices_to_delete) >= 2
    /\ delete_calls = indices_to_delete
    /\ DateOf(indices_to_delete[1]) > DateOf(indices_to_delete[2])
    /\ sorted_indices # indices

\* the records of `s` that are not in the plan, in the order of `s`
RECURSIVE Remaining(_)
Remaining(s) ==
    IF s = <<>> THEN <<>>
    ELSE (IF Head(s).name \in Range(indices_to_delete) THEN <<>> ELSE <<Head(s)>>)
         \o Remaining(Tail(s))

\* the plan of a second selection, over what the first one kept
PlanOfRerun == select_loop(sorted_reverse(Remaining(indices)), limit, 0, <<>>)

(* C19: for every input and budget, the selection applied with the same      *)
(* budget to the records a first selection kept gives an empty plan.         *)
C19_Idempotent == Selected => PlanOfRerun = <<>>

C19_Witness ==
    /\ Selected
    /\ limit > 0
    /\ Len(kept) >= 2
    /\ indices_to_delete # <<>>
    /\ sorted_reverse(Remaining(indices)) # Remaining(indices)
    /\ \E i \in 1..Len(indices) : ~Planned(i) /\ indices[i].size > 0
    /\ PlanOfRerun = <<>>

====
